---- MODULE Spec2Model ----
(***************************************************************************)
(* A model of spider-solver: the pyramid board in its two implementations  *)
(* (the pointer-linked Board of board.py and the table-driven FlatBoard of *)
(* flat_board.py), the circular draw Stack, and the best-first search of   *)
(* game.py.                                                                *)
(*                                                                         *)
(* Cards are objects compared by identity in the source.  A board card is  *)
(* identified by its position 0..27 (row by row), a stack card by          *)
(* StackBase + its position in the dealt stack.  None is Python's None.    *)
(* copy.deepcopy of a board makes new card objects: seen from the copy,    *)
(* the card c of the board it was copied from is the object CopyBase + c,  *)
(* with the same rank and position and another identity.                   *)
(***************************************************************************)
EXTENDS Integers, Sequences, FiniteSets, TLC

None == -1

King == 13

StackBase == 100

CopyBase == 1000

Positions == 0 .. 27

Ranks == 1 .. 13

(***************************************************************************)
(* The static tables of flat_board.py, copied entry by entry.  Python      *)
(* indexes from 0, TLA+ sequences from 1, hence the [i + 1] at every use.  *)
(***************************************************************************)
blockers_map ==
  << {},
     {0},
     {0},
     {1, 0},
     {1, 2, 0},
     {2, 0},
     {3, 1, 0},
     {3, 4, 1, 2, 0},
     {4, 5, 1, 2, 0},
     {5, 2, 0},
     {6, 3, 1, 0},
     {6, 7, 3, 4, 1, 2, 0},
     {7, 8, 3, 4, 5, 1, 2, 0},
     {8, 9, 4, 5, 1, 2, 0},
     {9, 5, 2, 0},
     {10, 6, 3, 1, 0},
     {10, 11, 6, 7, 3, 4, 1, 2, 0},
     {11, 12, 6, 7, 8, 3, 4, 5, 1, 2, 0},
     {12, 13, 7, 8, 9, 3, 4, 5, 1, 2, 0},
     {13, 14, 8, 9, 4, 5, 1, 2, 0},
     {14, 9, 5, 2, 0},
     {15, 10, 6, 3, 1, 0},
     {15, 16, 10, 11, 6, 7, 3, 4, 1, 2, 0},
     {16, 17, 10, 11, 12, 6, 7, 8, 3, 4, 5, 1, 2, 0},
     {17, 18, 11, 12, 13, 6, 7, 8, 9, 3, 4, 5, 1, 2, 0},
     {18, 19, 12, 13, 14, 7, 8, 9, 3, 4, 5, 1, 2, 0},
     {19, 20, 13, 14, 8, 9, 4, 5, 1, 2, 0},
     {20, 14, 9, 5, 2, 0} >>

blocks_cards_map ==
  << <<None, None>>,
     <<0, None>>,
     <<0, None>>,
     <<1, None>>,
     <<1, 2>>,
     <<2, None>>,
     <<3, None>>,
     <<3, 4>>,
     <<4, 5>>,
     <<5, None>>,
     <<6, None>>,
     <<6, 7>>,
     <<7, 8>>,
     <<8, 9>>,
     <<9, None>>,
     <<10, None>>,
     <<10, 11>>,
     <<11, 12>>,
     <<12, 13>>,
     <<13, 14>>,
     <<14, None>>,
     <<15, None>>,
     <<15, 16>>,
     <<16, 17>>,
     <<17, 18>>,
     <<18, 19>>,
     <<19, 20>>,
     <<20, None>> >>

blocked_by_map ==
  << {1, 2, 3, 4, 5, 6, 7, 8, 9, 10, 11, 12, 13, 14, 15, 16, 17, 18, 19, 20,
      21, 22, 23, 24, 25, 26, 27},
     {3, 4, 6, 7, 8, 10, 11, 12, 13, 15, 16, 17, 18, 19, 21, 22, 23, 24, 25, 26},
     {4, 5, 7, 8, 9, 11, 12, 13, 14, 16, 17, 18, 19, 20, 22, 23, 24, 25, 26, 27},
     {6, 7, 10, 11, 12, 15, 16, 17, 18, 21, 22, 23, 24, 25},
     {7, 8, 11, 12, 13, 16, 17, 18, 19, 22, 23, 24, 25, 26},
     {8, 9, 12, 13, 14, 17, 18, 19, 20, 23, 24, 25, 26, 27},
     {10, 11, 15, 16, 17, 21, 22, 23, 24},
     {11, 12, 16, 17, 18, 22, 23, 24, 25},
     {12, 13, 17, 18, 19, 23, 24, 25, 26},
     {13, 14, 18, 19, 20, 24, 25, 26, 27},
     {15, 16, 21, 22, 23},
     {16, 17, 22, 23, 24},
     {17, 18, 23, 24, 25},
     {18, 19, 24, 25, 26},
     {19, 20, 25, 26, 27},
     {21, 22},
     {22, 23},
     {23, 24},
     {24, 25},
     {25, 26},
     {26, 27},
     {},
     {},
     {},
     {},
     {},
     {},
     {} >>

(***************************************************************************)
(* The deals the model is run on: complete 52-card deals, 28 ranks dealt   *)
(* row by row onto the pyramid and 24 ranks in the stack, every rank four  *)
(* times.                                                                  *)
(***************************************************************************)
Deals ==
  << [rows  |-> <<13, 5, 8, 5, 8, 7, 8, 6, 4, 5, 7, 13, 7, 9, 9, 7, 13, 9, 6,
                  6, 4, 13, 8, 5, 6, 9, 4, 4>>,
      stack |-> <<10, 3, 1, 12, 2, 10, 3, 1, 11, 11, 10, 12, 3, 11, 11, 1, 10,
                  2, 1, 2, 12, 3, 2, 12>>],
     [rows  |-> <<10, 2, 13, 1, 11, 13, 1, 2, 10, 3, 3, 13, 12, 13, 3, 12, 1,
                  10, 3, 2, 12, 2, 1, 12, 10, 11, 11, 11>>,
      stack |-> <<5, 9, 7, 5, 4, 5, 8, 9, 5, 4, 6, 6, 7, 7, 9, 6, 9, 8, 4, 6,
                  8, 7, 4, 8>>],
     [rows  |-> <<12, 1, 5, 5, 11, 2, 2, 7, 8, 11, 1, 7, 12, 6, 7, 2, 13, 7, 5,
                  13, 8, 6, 11, 12, 6, 6, 2, 11>>,
      stack |-> <<3, 9, 10, 9, 10, 10, 9, 3, 3, 8, 4, 1, 13, 1, 5, 3, 13, 4, 4,
                  10, 12, 9, 8, 4>>],
     [rows  |-> <<7, 9, 12, 1, 10, 3, 4, 10, 7, 1, 4, 12, 10, 7, 12, 12, 1, 13,
                  3, 6, 10, 1, 13, 3, 3, 13, 9, 13>>,
      stack |-> <<11, 6, 11, 4, 11, 11, 9, 4, 2, 6, 5, 6, 5, 9, 5, 2, 2, 7, 5,
                  8, 8, 2, 8, 8>>],
     [rows  |-> <<3, 12, 1, 3, 1, 10, 10, 2, 13, 13, 11, 12, 2, 2, 11, 9, 10,
                  2, 3, 13, 4, 9, 13, 11, 9, 11, 3, 10>>,
      stack |-> <<5, 4, 7, 5, 5, 1, 9, 4, 4, 12, 8, 6, 6, 6, 8, 6, 7, 7, 12, 8,
                  8, 7, 1, 5>>],
     [rows  |-> <<8, 3, 4, 9, 6, 4, 7, 7, 5, 9, 6, 5, 9, 6, 9, 13, 2, 5, 6, 4,
                  5, 7, 8, 4, 8, 13, 7, 8>>,
      stack |-> <<13, 3, 2, 12, 10, 12, 2, 12, 11, 2, 1, 3, 3, 12, 13, 11, 11,
                  11, 10, 10, 1, 10, 1, 1>>],
     [rows  |-> <<5, 5, 13, 1, 9, 6, 7, 7, 11, 6, 4, 7, 11, 2, 6, 4, 2, 2, 9,
                  13, 7, 4, 11, 13, 6, 4, 9, 9>>,
      stack |-> <<8, 12, 8, 13, 1, 1, 1, 5, 5, 8, 8, 12, 12, 12, 3, 3, 3, 3,
                  10, 10, 10, 10, 2, 11>>],
     [rows  |-> <<11, 1, 1, 12, 6, 13, 2, 1, 13, 13, 13, 11, 7, 1, 11, 6, 7, 6,
                  6, 7, 11, 2, 12, 12, 2, 7, 12, 2>>,
      stack |-> <<8, 9, 4, 10, 10, 10, 5, 9, 4, 5, 4, 9, 3, 4, 3, 8, 8, 9, 8, 3,
                  10, 3, 5, 5>>],
     [rows  |-> <<10, 10, 10, 10, 11, 11, 11, 11, 12, 12, 12, 12, 13, 13, 13,
                  13, 1, 2, 2, 3, 3, 1, 2, 3, 1, 2, 3, 1>>,
      stack |-> <<4, 4, 4, 4, 5, 5, 5, 5, 6, 6, 6, 6, 9, 9, 9, 9, 8, 8, 8, 8,
                  7, 7, 7, 7>>],
     [rows  |-> <<4, 8, 3, 6, 2, 2, 13, 7, 6, 7, 3, 9, 10, 5, 11, 8, 12, 2, 6,
                  8, 13, 12, 12, 4, 11, 4, 3, 1>>,
      stack |-> <<10, 1, 9, 5, 9, 8, 13, 9, 7, 7, 12, 10, 1, 11, 4, 10, 5, 5,
                  11, 3, 6, 13, 2, 1>>] >>

\* the deals single boards are played on, and the deals simulate is run on
PlayDeals == 1 .. 6

SimDeals == 1 .. 9

VARIABLES
  deal,      \* index into Deals of the deal the board was built from
  impl,      \* "flat" (FlatBoard) or "ptr" (pointer-linked Board)
  flat,      \* the FlatBoard object
  ptr,       \* the Board object
  removed,   \* history: board positions passed to a successful removal
  last,      \* the move handed to the latest play_move call
  exc,       \* the exception that call raised, or "none"
  op,        \* which operation ran last
  rejects,   \* number of re-applied moves so far
  known_min_moves,  \* simulate: the bound it is called with
  first_games,      \* simulate: how many moves into a game the wider width lasts
  boards,    \* simulate: the heap of (moves, moves_made, board) entries
  seen_states,      \* simulate: signatures of the states pushed so far
  solution,  \* the path simulate returned, as describe_solution consumes it
  played,    \* history: the moves describe_solution has applied
  solution_trie,    \* simulate: what add_solution recorded, by path
  node,      \* simulate: the node the while loop expanded last
  stack,     \* a Stack object used on its own
  ret,       \* what the latest call on that Stack returned
  args,      \* the arguments of a constructor or property called on its own
  result     \* what that call gave

vars == <<deal, impl, flat, ptr, removed, last, exc, op, rejects,
          known_min_moves, first_games, boards, seen_states, solution,
          played, solution_trie, node, stack, ret, args, result>>

simvars == <<known_min_moves, first_games, boards, seen_states, solution,
            played, solution_trie, node>>

stackvars == <<stack, ret>>

callvars == <<args, result>>

SeqSet(seq) == {seq[i] : i \in 1 .. Len(seq)}

(***************************************************************************)
(* Card                                                                    *)
(***************************************************************************)
on_board(c) == c >= 0 /\ c % CopyBase < StackBase

num(c) ==
  IF on_board(c) THEN Deals[deal].rows[(c % CopyBase) + 1]
                 ELSE Deals[deal].stack[(c % CopyBase) - StackBase + 1]

\* Card.match: (13 - num) or 13
\* the king's match is left at 0
match_zero(n) == 13 - n

match(n) == IF 13 - n = 0 THEN 13 ELSE 13 - n

(***************************************************************************)
(* Stack: [cards |-> sequence of cards ending in None, idx |-> 0-based]    *)
(***************************************************************************)
NewStack(n) == [cards |-> [i \in 1 .. n + 1 |-> IF i = n + 1 THEN None
                                                 ELSE StackBase + i - 1],
                idx   |-> 0]

\* a slip in draw: the index stops at the trailing slot instead of wrapping
draw_no_wrap(s, count) ==
  [s EXCEPT !.idx = IF s.idx + count >= Len(s.cards) THEN Len(s.cards) - 1
                    ELSE s.idx + count]

draw(s, count) == [s EXCEPT !.idx = (s.idx + count) % Len(s.cards)]

peek(s) == IF Len(s.cards) = 0 THEN None ELSE s.cards[s.idx + 1]

prev(s) == IF s.idx = 0 THEN None ELSE s.cards[s.idx]

\* a slip in get_card_at_draws: one slot too far
get_card_at_draws_next(s, draws) == s.cards[((s.idx + draws + 1) % Len(s.cards)) + 1]

get_card_at_draws(s, draws) == s.cards[((s.idx + draws) % Len(s.cards)) + 1]

\* a slip in num_in_stack: the previous card is not skipped
curr_order_with_prev(s) ==
  IF s.idx = 0
  THEN s.cards
  ELSE SubSeq(s.cards, s.idx + 1, Len(s.cards)) \o SubSeq(s.cards, 1, s.idx)

\* the stack in draw order without the previous card
curr_order(s) ==
  IF s.idx = 0
  THEN s.cards
  ELSE SubSeq(s.cards, s.idx + 1, Len(s.cards)) \o SubSeq(s.cards, 1, s.idx - 1)

\* a slip in num_in_stack: -1 is listed for the visible card's rank
num_in_stack_peek_as_prev(s, n) ==
  LET order == curr_order(s)
  IN  (IF peek(s) # None /\ num(peek(s)) = n THEN <<-1>> ELSE <<>>)
      \o SelectSeq([i \in 1 .. Len(order) |-> i - 1],
                   LAMBDA d : order[d + 1] # None /\ num(order[d + 1]) = n)

\* num_in_stack: the list draws_for_num, -1 first if the previous card has
\* the rank, then the indexes of curr_order holding the rank, ascending
num_in_stack(s, n) ==
  LET order == curr_order(s)
  IN  (IF prev(s) # None /\ num(prev(s)) = n THEN <<-1>> ELSE <<>>)
      \o SelectSeq([i \in 1 .. Len(order) |-> i - 1],
                   LAMBDA d : order[d + 1] # None /\ num(order[d + 1]) = n)

\* idxs[0] of a non-empty result of num_in_stack
first_in_stack(s, n) == Head(num_in_stack(s, n))

Move(t, d, cs) == [type |-> t, draws |-> d, cards |-> cs]

\* a move computed on a board, as a deep copy of that board sees it: its
\* cards are the objects of the board copied from, not the copy's own
original(m) == [m EXCEPT !.cards = [i \in DOMAIN m.cards |-> CopyBase + m.cards[i]]]

get_stack_moves(s) ==
  LET n == Len(s.cards)
      kings == {i \in 1 .. n - 1 : s.cards[i + 1] # None /\ num(s.cards[i + 1]) = 13}
      pairs == {i \in 1 .. n - 1 :
                  /\ i \notin kings
                  /\ s.cards[i] # None /\ s.cards[i + 1] # None
                  /\ match(num(s.cards[i])) = num(s.cards[i + 1])}
  IN  {Move("StackMatch", (i - s.idx) % n, <<s.cards[i + 1]>>) : i \in kings}
      \cup {Move("StackMatch", (i - s.idx) % n, <<s.cards[i], s.cards[i + 1]>>) :
              i \in pairs}

\* list.remove(card): drop the first occurrence
list_remove(seq, c) ==
  LET k == CHOOSE i \in 1 .. Len(seq) : seq[i] = c /\ \A j \in 1 .. i - 1 : seq[j] # c
  IN  SubSeq(seq, 1, k - 1) \o SubSeq(seq, k + 1, Len(seq))

\* a slip in remove_cards: the index is not shifted back for the previous card
stack_remove_one_no_shift(s, c) ==
  [cards |-> list_remove(s.cards, c), idx |-> s.idx]

stack_remove_one(s, c) ==
  [cards |-> list_remove(s.cards, c),
   idx   |-> IF prev(s) = c THEN s.idx - 1 ELSE s.idx]

\* a slip in remove_cards: each card is tested only when its turn to be
\* removed comes
stack_remove_cards_lazy(s, cs) ==
  IF prev(s) # cs[1] /\ peek(s) # cs[1]
  THEN [s |-> s, exc |-> "IllegalMove"]
  ELSE LET s1 == stack_remove_one(s, cs[1])
       IN  IF Len(cs) = 1 THEN [s |-> s1, exc |-> "none"]
           ELSE IF prev(s1) # cs[2] /\ peek(s1) # cs[2]
                THEN [s |-> s1, exc |-> "IllegalMove"]
                ELSE [s |-> stack_remove_one(s1, cs[2]), exc |-> "none"]

\* Stack.remove_cards on a sequence of one or two cards; the result carries
\* the stack as the call leaves it and the exception raised
stack_remove_cards(s, cs) ==
  IF \E k \in 1 .. Len(cs) : prev(s) # cs[k] /\ peek(s) # cs[k]
  THEN [s |-> s, exc |-> "IllegalMove"]
  ELSE LET s1 == stack_remove_one(s, cs[1])
       IN  IF Len(cs) = 1 THEN [s |-> s1, exc |-> "none"]
           ELSE IF cs[2] \notin {s1.cards[i] : i \in 1 .. Len(s1.cards)}
                THEN [s |-> [s1 EXCEPT !.idx = IF prev(s1) = cs[2] THEN @ - 1 ELSE @],
                      exc |-> "ValueError"]
                ELSE [s |-> stack_remove_one(s1, cs[2]), exc |-> "none"]

(***************************************************************************)
(* Pyramid geometry as Board.__init__ lays it out: row r holds r + 1 cards *)
(* and the card at (r, c) is blocked by (r + 1, c) and (r + 1, c + 1).     *)
(***************************************************************************)
NumRows == 7

PosAt(r, c) == (r * (r + 1)) \div 2 + c

RowOf(p) == CHOOSE r \in 0 .. NumRows - 1 : PosAt(r, 0) <= p /\ p <= PosAt(r, r)

ColOf(p) == p - PosAt(RowOf(p), 0)

\* a slip in __init__: the row above the bottom row gets no edges either
Edges_short(p) ==
  IF RowOf(p) >= NumRows - 2
  THEN <<None, None>>
  ELSE <<PosAt(RowOf(p) + 1, ColOf(p)), PosAt(RowOf(p) + 1, ColOf(p) + 1)>>

\* Edges(left, right) of the card at p on a freshly built board
Edges(p) ==
  IF RowOf(p) = NumRows - 1
  THEN <<None, None>>
  ELSE <<PosAt(RowOf(p) + 1, ColOf(p)), PosAt(RowOf(p) + 1, ColOf(p) + 1)>>

Children(p) == {Edges(p)[1], Edges(p)[2]} \ {None}

Result(b, e) == [b |-> b, exc |-> e]

\* a slip in play_move: the draws are made but not counted as moves
play_draws_uncounted(b, m) ==
  IF m.draws # 0 THEN [b EXCEPT !.stack = draw(@, m.draws)] ELSE b

\* the opening of play_move, the same in both boards: draw, and count the
\* draws as moves
play_draws(b, m) ==
  IF m.draws # 0
  THEN [b EXCEPT !.stack = draw(@, m.draws), !.moves = @ + m.draws]
  ELSE b

(***************************************************************************)
(* FlatBoard                                                               *)
(***************************************************************************)
FlatBoard(d, error_handle) ==
  [leaf_idxs    |-> 21 .. 27,
   moves        |-> 0,
   completed    |-> FALSE,
   card_counts  |-> [k \in Ranks |-> 4],
   stack        |-> NewStack(Len(Deals[d].stack)),
   error_handle |-> error_handle]

\* a slip in remove_cards: the board counts as completed from card 1 on
flat_take_completes_early(b, c) ==
  IF c \notin b.leaf_idxs
  THEN Result(b, "KeyError")
  ELSE Result([b EXCEPT !.leaf_idxs = @ \ {c},
                        !.completed = @ \/ c = 1], "none")

\* one turn of the removal loop of remove_cards: set.remove raises KeyError
\* when the index is not a leaf
flat_take(b, c) ==
  IF c \notin b.leaf_idxs
  THEN Result(b, "KeyError")
  ELSE Result([b EXCEPT !.leaf_idxs = @ \ {c},
                        !.completed = @ \/ c = 0], "none")

\* a slip in remove_cards: the candidates lying above other candidates are
\* not set aside
new_leaves_unfiltered(leaf_idxs, cs) ==
  LET leaf_candidates ==
        {blocks_cards_map[cs[k] + 1][j] : k \in 1 .. Len(cs), j \in 1 .. 2} \ {None}
  IN  {c \in leaf_candidates : blocked_by_map[c + 1] \cap leaf_idxs = {}}

\* the candidates the loop over leaf_candidates - candidate_blockers turns
\* into leaves.  The loop adds to leaf_idxs while it runs; a candidate added
\* earlier is never below a later one (those are in candidate_blockers), so
\* the tests do not depend on the order.
new_leaves(leaf_idxs, cs) ==
  LET leaf_candidates ==
        {blocks_cards_map[cs[k] + 1][j] : k \in 1 .. Len(cs), j \in 1 .. 2} \ {None}
      candidate_blockers == UNION {blockers_map[c + 1] : c \in leaf_candidates}
  IN  {c \in leaf_candidates \ candidate_blockers :
         blocked_by_map[c + 1] \cap leaf_idxs = {}}

\* only the first card is counted
reduce_counts_first(counts, cs) == [counts EXCEPT ![num(cs[1])] = @ - 1]

reduce_counts(counts, cs) ==
  LET c1 == [counts EXCEPT ![num(cs[1])] = @ - 1]
  IN  IF Len(cs) = 1 THEN c1 ELSE [c1 EXCEPT ![num(cs[2])] = @ - 1]

flat_remove_cards(b, cs) ==
  IF b.error_handle /\ \E k \in 1 .. Len(cs) : cs[k] \notin b.leaf_idxs
  THEN Result(b, "IllegalMove")
  ELSE IF \E k \in 1 .. Len(cs) : cs[k] \notin Positions
  THEN Result(b, "ValueError")          \* self.cards.index(card)
  ELSE LET r1 == flat_take(b, cs[1])
           r2 == IF Len(cs) = 1 THEN r1 ELSE flat_take(r1.b, cs[2])
       IN  IF r1.exc # "none" THEN r1
           ELSE IF r2.exc # "none" THEN r2
           ELSE Result([r2.b EXCEPT
                          !.leaf_idxs = @ \cup new_leaves(r2.b.leaf_idxs, cs),
                          !.card_counts = reduce_counts(@, cs)], "none")

\* the pairs (leaf, match) the double loop over the leaves handles, after its
\* swap putting the lower rank first
table_pairs(leaves) ==
  {<<l, m>> \in leaves \X leaves : match(num(m)) = num(l) /\ ~(num(l) > num(m))}
  \cup {<<m, l>> \in leaves \X leaves : match(num(m)) = num(l) /\ num(l) > num(m)}

board_stack_moves(leaves, s) ==
  UNION {{Move("BoardStackMatch", IF i > 0 THEN i ELSE 0,
               <<l, get_card_at_draws(s, i)>>) :
            i \in SeqSet(num_in_stack(s, match(num(l))))} : l \in leaves}

\* a slip in get_moves: only a match on the previous card is forced
solo_stack_leaves_prev_only(leaves, solo_cards, s) ==
  {l \in leaves : /\ num_in_stack(s, match(num(l))) # <<>>
                  /\ num(l) \in solo_cards
                  /\ first_in_stack(s, match(num(l))) < 0}

\* the leaves for which the stack loop returns at once: the rank is solo and
\* the first distance num_in_stack lists needs no draw
solo_stack_leaves(leaves, solo_cards, s) ==
  {l \in leaves : /\ num_in_stack(s, match(num(l))) # <<>>
                  /\ num(l) \in solo_cards
                  /\ first_in_stack(s, match(num(l))) <= 0}

solo_stack_outcome(l, s) ==
  LET i == first_in_stack(s, match(num(l)))
      stack_card == get_card_at_draws(s, i)
  IN  IF stack_card = None
      THEN [exc |-> "SpiderException", moves |-> {}]
      ELSE [exc |-> "none",
            moves |-> {Move("BoardStackMatch", IF i > 0 THEN i ELSE 0, <<l, stack_card>>)}]

\* the stack moves for which the last loop of get_moves returns at once
zero_draw_stack(s, solo_cards, moves_on_table) ==
  {m \in get_stack_moves(s) :
     /\ m.draws = 0
     /\ (num(m.cards[1]) \in solo_cards \/ num(m.cards[1]) = 13)
     /\ ~moves_on_table}

Only(m) == [exc |-> "none", moves |-> {m}]

\* what get_moves does after the table loop found nothing to return; shared
\* by both boards, whose code is the same from there on
stack_part(leaves, solo_cards, s, table) ==
  LET stackLeaves == solo_stack_leaves(leaves, solo_cards, s)
      zero == zero_draw_stack(s, solo_cards, table # {})
  IN  IF stackLeaves # {} THEN {solo_stack_outcome(l, s) : l \in stackLeaves}
      ELSE IF zero # {} THEN {Only(m) : m \in zero}
      ELSE {[exc |-> "none",
             moves |-> {Move("BoardMatch", 0, p) : p \in table}
                       \cup board_stack_moves(leaves, s)
                       \cup get_stack_moves(s)]}

\* a slip in get_moves: the last pair of two ranks is not forced
flat_get_moves_unforced(b) ==
  LET leaves == b.leaf_idxs
      kings == {c \in leaves : num(c) = 13}
      solo_cards == {k \in Ranks : b.card_counts[k] = 1}
  IN  IF kings # {} THEN {Only(Move("BoardMatch", 0, <<k>>)) : k \in kings}
      ELSE stack_part(leaves, solo_cards, b.stack, table_pairs(leaves))

\* FlatBoard.get_moves: the set of results the call can produce.  Leaves are
\* iterated as a Python set of objects hashed by address, so which of several
\* forced moves is met first is not determined by the board.
flat_get_moves(b) ==
  LET leaves == b.leaf_idxs
      kings == {c \in leaves : num(c) = 13}
      solo_cards == {k \in Ranks : b.card_counts[k] = 1}
      table == table_pairs(leaves)
      forced == {p \in table : num(p[1]) \in solo_cards}
  IN  IF kings # {} THEN {Only(Move("BoardMatch", 0, <<k>>)) : k \in kings}
      ELSE IF forced # {} THEN {Only(Move("BoardMatch", 0, p)) : p \in forced}
      ELSE stack_part(leaves, solo_cards, b.stack, table)

flat_play_move(b, m) ==
  LET b1 == play_draws(b, m)
      done(r) == IF r.exc = "none" THEN Result([r.b EXCEPT !.moves = @ + 1], "none")
                 ELSE r
  IN  CASE m.type = "BoardMatch" -> done(flat_remove_cards(b1, m.cards))
        [] m.type = "BoardStackMatch" /\ Len(m.cards) = 2 ->
             LET flip == ~on_board(m.cards[1])
                 board_card == IF flip THEN m.cards[2] ELSE m.cards[1]
                 stack_card == IF flip THEN m.cards[1] ELSE m.cards[2]
                 sr == stack_remove_cards(b1.stack, <<stack_card>>)
                 b2 == [b1 EXCEPT !.stack = sr.s]
                 b3 == [b2 EXCEPT !.card_counts[num(stack_card)] = @ - 1]
             IN  IF b.error_handle /\ (on_board(m.cards[1]) = on_board(m.cards[2]))
                 THEN Result(b1, "SpiderException")
                 ELSE IF /\ b.error_handle
                         /\ stack_card # peek(b1.stack)
                         /\ stack_card # prev(b1.stack)
                 THEN Result(b1, "IllegalMove")
                 ELSE IF sr.exc # "none" THEN Result(b2, sr.exc)
                 ELSE done(flat_remove_cards(b3, <<board_card>>))
        [] m.type = "StackMatch" ->
             LET sr == stack_remove_cards(b1.stack, m.cards)
                 b2 == [b1 EXCEPT !.stack = sr.s]
             IN  IF sr.exc # "none" THEN Result(b2, sr.exc)
                 ELSE done(Result([b2 EXCEPT !.card_counts = reduce_counts(@, m.cards)],
                                  "none"))
        [] OTHER -> Result(b1, "IllegalMove")

(***************************************************************************)
(* Board (pointer-linked): cards maps every card still on the board to its *)
(* Edges <<left, right>>                                                   *)
(***************************************************************************)
Board(d) ==
  [cards |-> [p \in Positions |-> Edges(p)],
   moves |-> 0,
   stack |-> NewStack(Len(Deals[d].stack))]

\* Edges.__len__ is 0 exactly when both edges are None
edges_len(e) == IF e[1] # None THEN 1 ELSE IF e[2] # None THEN 1 ELSE 0

ptr_leaves(b) == {c \in DOMAIN b.cards : edges_len(b.cards[c]) = 0}

\* Counter over the board cards and the stack cards
ptr_card_counts(b) ==
  [k \in Ranks |->
     Cardinality({c \in DOMAIN b.cards : num(c) = k})
     + Cardinality({i \in 1 .. Len(b.stack.cards) :
                      b.stack.cards[i] # None /\ num(b.stack.cards[i]) = k})]

\* a slip in _remove_cards: the card above loses both edges at once
ptr_take_unlink_both(b, c) ==
  IF c \notin DOMAIN b.cards
  THEN Result(b, "KeyError")
  ELSE Result([b EXCEPT !.cards =
                 [q \in DOMAIN b.cards \ {c} |->
                    IF c \in {b.cards[q][1], b.cards[q][2]} THEN <<None, None>>
                    ELSE b.cards[q]]], "none")

\* the unlink-and-delete turn of _remove_cards for one card
ptr_take(b, c) ==
  IF c \notin DOMAIN b.cards
  THEN Result(b, "KeyError")
  ELSE Result([b EXCEPT !.cards =
                 [q \in DOMAIN b.cards \ {c} |->
                    IF b.cards[q][1] = c THEN <<None, b.cards[q][2]>>
                    ELSE IF b.cards[q][2] = c THEN <<b.cards[q][1], None>>
                    ELSE b.cards[q]]], "none")

\* a slip in _remove_cards: a card that is gone is reported as blocked
ptr_validate_gone_as_blocked(b, c) ==
  IF c \notin DOMAIN b.cards \/ edges_len(b.cards[c]) # 0 THEN "IllegalMove"
  ELSE "none"

\* the first complaint of the validation loop about card c
ptr_validate(b, c) ==
  IF c \notin DOMAIN b.cards THEN "CardNotFound"
  ELSE IF edges_len(b.cards[c]) # 0 THEN "IllegalMove"
  ELSE "none"

ptr_remove_cards(b, cs) ==
  IF ptr_validate(b, cs[1]) # "none" THEN Result(b, ptr_validate(b, cs[1]))
  ELSE IF Len(cs) = 2 /\ ptr_validate(b, cs[2]) # "none"
  THEN Result(b, ptr_validate(b, cs[2]))
  ELSE LET r1 == ptr_take(b, cs[1])
       IN  IF Len(cs) = 1 THEN r1 ELSE ptr_take(r1.b, cs[2])

\* Board.get_moves: the set of results the call can produce.  The king test
\* sits inside the loop over the leaf pairs, so a solo pair met before the
\* king is returned instead of it.
ptr_get_moves(b) ==
  LET leaves == ptr_leaves(b)
      solo_cards == {k \in Ranks : ptr_card_counts(b)[k] = 1}
      table == table_pairs(leaves)
      kings == {p \in table : p[1] = p[2]}
      forced == {p \in table : p[1] # p[2] /\ num(p[1]) \in solo_cards}
  IN  IF kings \cup forced # {}
      THEN {Only(Move("BoardMatch", 0, <<p[1]>>)) : p \in kings}
           \cup {Only(Move("BoardMatch", 0, p)) : p \in forced}
      ELSE stack_part(leaves, solo_cards, b.stack, table)

ptr_play_move(b, m) ==
  LET b1 == play_draws(b, m)
      done(r) == IF r.exc = "none" THEN Result([r.b EXCEPT !.moves = @ + 1], "none")
                 ELSE r
  IN  CASE m.type = "BoardMatch" -> done(ptr_remove_cards(b1, m.cards))
        [] m.type = "BoardStackMatch" /\ Len(m.cards) = 2 ->
             LET flip == ~on_board(m.cards[1])
                 board_card == IF flip THEN m.cards[2] ELSE m.cards[1]
                 stack_card == IF flip THEN m.cards[1] ELSE m.cards[2]
                 sr == stack_remove_cards(b1.stack, <<stack_card>>)
                 b2 == [b1 EXCEPT !.stack = sr.s]
             IN  IF on_board(m.cards[1]) = on_board(m.cards[2])
                 THEN Result(b1, "SpiderException")
                 ELSE IF stack_card # peek(b1.stack) /\ stack_card # prev(b1.stack)
                 THEN Result(b1, "IllegalMove")
                 ELSE IF sr.exc # "none" THEN Result(b2, sr.exc)
                 ELSE done(ptr_remove_cards(b2, <<board_card>>))
        [] m.type = "StackMatch" ->
             LET sr == stack_remove_cards(b1.stack, m.cards)
             IN  IF sr.exc # "none" THEN Result([b1 EXCEPT !.stack = sr.s], sr.exc)
                 ELSE done(Result([b1 EXCEPT !.stack = sr.s], "none"))
        [] OTHER -> Result(b1, "IllegalMove")

(***************************************************************************)
(* The play of one board: a caller builds a board from a deal, then plays  *)
(* moves get_moves returned, and may hand play_move the move it has just   *)
(* played a second time; the run is followed up to its MaxRejects-th       *)
(* re-applied move.                                                        *)
(***************************************************************************)
MaxRejects == 1

NoMove == Move("none", 0, <<>>)

\* ddict(): a trie of nested dicts, here a function from the path of a node
\* to the set of (key, value) items the node holds; the root has none
ddict == [p \in {<<>>} |-> {}]

\* no node has been expanded yet
NoNode ==
  [moves_made |-> <<>>, board_moves |-> 0, moves |-> <<>>, max_moves |-> 0,
   played |-> <<>>]

board_cards(m) == {c \in SeqSet(m.cards) : on_board(c)}

Init ==
  /\ deal \in PlayDeals
  /\ impl \in {"flat", "ptr"}
  /\ flat = FlatBoard(deal, FALSE)
  /\ ptr = Board(deal)
  /\ removed = {}
  /\ last = NoMove
  /\ exc = "none"
  /\ op = "init"
  /\ rejects = 0
  /\ known_min_moves = 0
  /\ first_games = 5
  /\ boards = {}
  /\ seen_states = {}
  /\ solution = <<>>
  /\ played = <<>>
  /\ solution_trie = ddict
  /\ node = NoNode
  /\ args = <<>>
  /\ result = <<>>
  /\ stack = NewStack(0)
  /\ ret = None

FlatPlay ==
  /\ impl = "flat"
  /\ rejects < MaxRejects
  /\ \E o \in flat_get_moves(flat) :
       /\ o.exc = "none"
       /\ \E m \in o.moves :
            LET r == flat_play_move(flat, m)
            IN  /\ flat' = r.b
                /\ exc' = r.exc
                /\ last' = m
                /\ removed' = IF r.exc = "none" THEN removed \cup board_cards(m)
                              ELSE removed
  /\ op' = "play"
  /\ UNCHANGED <<deal, impl, ptr, rejects, simvars, stackvars, callvars>>

BoardPlay ==
  /\ impl = "ptr"
  /\ rejects < MaxRejects
  /\ \E o \in ptr_get_moves(ptr) :
       /\ o.exc = "none"
       /\ \E m \in o.moves :
            LET r == ptr_play_move(ptr, m)
            IN  /\ ptr' = r.b
                /\ exc' = r.exc
                /\ last' = m
                /\ removed' = IF r.exc = "none" THEN removed \cup board_cards(m)
                              ELSE removed
  /\ op' = "play"
  /\ UNCHANGED <<deal, impl, flat, rejects, simvars, stackvars, callvars>>

\* play_move called again with the move that has just been applied
Reapply ==
  /\ op = "play" /\ exc = "none"
  /\ rejects < MaxRejects
  /\ LET rf == flat_play_move(flat, last)
         rp == ptr_play_move(ptr, last)
     IN  /\ flat' = IF impl = "flat" THEN rf.b ELSE flat
         /\ ptr' = IF impl = "ptr" THEN rp.b ELSE ptr
         /\ exc' = IF impl = "flat" THEN rf.exc ELSE rp.exc
  /\ op' = "reapply"
  /\ rejects' = rejects + 1
  /\ UNCHANGED <<deal, impl, removed, last, simvars, stackvars, callvars>>

Next == FlatPlay \/ BoardPlay \/ Reapply

Spec == Init /\ [][Next]_vars

(***************************************************************************)
(* The play of one board by a caller that may also hand play_move a move   *)
(* the board cannot apply: a move naming a card that is blocked, gone from *)
(* the board or outside the window of the stack, or a move whose kind does *)
(* not fit its cards.  The run is followed up to the first such call.      *)
(* FlatBoard is built with either setting of error_handle.                 *)
(***************************************************************************)
ErrDeals == {2, 4, 6}

MisplayDraws == 0 .. 1

fits(a, b) == num(a) + num(b) = 13

\* the moves a mistaken caller hands to play_move on a board with the given
\* leaves (as get_moves sees them), blocked cards and removed cards
misplays(leaves, blocked, gone, s) ==
  UNION {
    LET s1     == draw(s, d)
        window == {peek(s1), prev(s1)} \ {None}
        hidden == SeqSet(s.cards) \ (window \cup {None})
        off    == blocked \cup gone
    IN  {Move("BoardMatch", d, <<b>>) : b \in {c \in off : num(c) = King}}
        \cup {Move("BoardMatch", d, <<p[1], p[2]>>) :
                p \in {q \in leaves \X off : fits(q[1], q[2])}}
        \cup {Move("BoardStackMatch", d, <<p[1], p[2]>>) :
                p \in {q \in leaves \X hidden : fits(q[1], q[2])}}
        \cup {Move("BoardStackMatch", d, <<p[1], p[2]>>) :
                p \in {q \in off \X window : fits(q[1], q[2])}}
        \cup {Move(t, d, <<p[1], p[2]>>) :
                t \in {"BoardStackMatch", "StackMatch"},
                p \in {q \in leaves \X leaves : fits(q[1], q[2])}}
        \cup {Move("BoardMatch", d, <<p[1], p[2]>>) :
                p \in {q \in leaves \X window : fits(q[1], q[2])}}
        \cup {Move("BoardStackMatch", d, <<c>>) :
                c \in {k \in leaves \cup window : num(k) = King}}
    : d \in MisplayDraws}

InitErr ==
  /\ deal \in ErrDeals
  /\ impl \in {"flat", "ptr"}
  /\ \E error_handle \in BOOLEAN :
        flat = FlatBoard(deal, IF impl = "flat" THEN error_handle ELSE FALSE)
  /\ ptr = Board(deal)
  /\ removed = {}
  /\ last = NoMove
  /\ exc = "none"
  /\ op = "init"
  /\ rejects = 0
  /\ known_min_moves = 0
  /\ first_games = 5
  /\ boards = {}
  /\ seen_states = {}
  /\ solution = <<>>
  /\ played = <<>>
  /\ solution_trie = ddict
  /\ node = NoNode
  /\ args = <<>>
  /\ result = <<>>
  /\ stack = NewStack(0)
  /\ ret = None

Misplay ==
  /\ op \in {"init", "play"} /\ exc = "none"
  /\ LET leaves  == IF impl = "flat" THEN flat.leaf_idxs ELSE ptr_leaves(ptr)
         blocked == (Positions \ removed) \ leaves
         s       == IF impl = "flat" THEN flat.stack ELSE ptr.stack
     IN  \E m \in misplays(leaves, blocked, removed, s) :
            LET rf == flat_play_move(flat, m)
                rp == ptr_play_move(ptr, m)
            IN  /\ flat' = IF impl = "flat" THEN rf.b ELSE flat
                /\ ptr' = IF impl = "ptr" THEN rp.b ELSE ptr
                /\ exc' = IF impl = "flat" THEN rf.exc ELSE rp.exc
                /\ last' = m
  /\ op' = "misplay"
  /\ UNCHANGED <<deal, impl, removed, rejects, simvars, stackvars, callvars>>

\* get_moves and play_move go on from a fresh board or a played move only
FlatPlayOn == op # "misplay" /\ FlatPlay

BoardPlayOn == op # "misplay" /\ BoardPlay

NextErr == FlatPlayOn \/ BoardPlayOn \/ Misplay

SpecErr == InitErr /\ [][NextErr]_vars

(***************************************************************************)
(* The opening of a deal with many moves to choose from: deal 10, whose    *)
(* bottom row matches the first card of the stack and its last two cards,  *)
(* played until MaxGone cards are gone.                                    *)
(***************************************************************************)
OpeningDeals == {10}

MaxGone == 4

cards_gone ==
  Cardinality(removed)
  + Len(Deals[deal].stack) + 1
  - (IF impl = "flat" THEN Len(flat.stack.cards) ELSE Len(ptr.stack.cards))

InitOpening ==
  /\ deal \in OpeningDeals
  /\ impl \in {"flat", "ptr"}
  /\ flat = FlatBoard(deal, FALSE)
  /\ ptr = Board(deal)
  /\ removed = {}
  /\ last = NoMove
  /\ exc = "none"
  /\ op = "init"
  /\ rejects = 0
  /\ known_min_moves = 0
  /\ first_games = 5
  /\ boards = {}
  /\ seen_states = {}
  /\ solution = <<>>
  /\ played = <<>>
  /\ solution_trie = ddict
  /\ node = NoNode
  /\ args = <<>>
  /\ result = <<>>
  /\ stack = NewStack(0)
  /\ ret = None

FlatOpening == cards_gone < MaxGone /\ FlatPlay

BoardOpening == cards_gone < MaxGone /\ BoardPlay

NextOpening == FlatOpening \/ BoardOpening

SpecOpening == InitOpening /\ [][NextOpening]_vars

(***************************************************************************)
(* A Stack used on its own, as the tests of the stack do: it is built from *)
(* the first cards of a deal's stack, then drawn from, queried and asked   *)
(* to remove cards, in any order.  last holds the call (its name, its      *)
(* integer argument, its cards), ret what it returned, exc what it raised. *)
(***************************************************************************)
StackDeals == {1, 2, 6, 7}

MaxStack == 5

Call(name, n, cs) == Move(name, n, cs)

\* the cards a caller may ask remove_cards to remove: one or two of the
\* cards the largest stack is built from, in the stack or not
requests ==
  LET cs == {StackBase + i : i \in 0 .. MaxStack - 1}
  IN  {<<c>> : c \in cs} \cup {<<p[1], p[2]>> : p \in {q \in cs \X cs : q[1] # q[2]}}

InitStack ==
  /\ deal \in StackDeals
  /\ impl = "flat"
  /\ flat = FlatBoard(deal, FALSE)
  /\ ptr = Board(deal)
  /\ removed = {}
  /\ last = NoMove
  /\ exc = "none"
  /\ op = "init"
  /\ rejects = 0
  /\ known_min_moves = 0
  /\ first_games = 5
  /\ boards = {}
  /\ seen_states = {}
  /\ solution = <<>>
  /\ played = <<>>
  /\ solution_trie = ddict
  /\ node = NoNode
  /\ args = <<>>
  /\ result = <<>>
  /\ \E n \in 1 .. MaxStack : stack = NewStack(n)
  /\ ret = None

StackDraw ==
  /\ \E count \in 0 .. Len(stack.cards) + 1 :
       /\ stack' = draw(stack, count)
       /\ last' = Call("draw", count, <<>>)
  /\ ret' = peek(stack')
  /\ exc' = "none"
  /\ op' = "draw"
  /\ UNCHANGED <<deal, impl, flat, ptr, removed, rejects, simvars, callvars>>

StackNumInStack ==
  /\ \E n \in Ranks :
       /\ ret' = num_in_stack(stack, n)
       /\ last' = Call("num_in_stack", n, <<>>)
  /\ exc' = "none"
  /\ op' = "num_in_stack"
  /\ UNCHANGED <<deal, impl, flat, ptr, removed, rejects, simvars, stack, callvars>>

StackGetStackMoves ==
  /\ ret' = get_stack_moves(stack)
  /\ last' = Call("get_stack_moves", 0, <<>>)
  /\ exc' = "none"
  /\ op' = "get_stack_moves"
  /\ UNCHANGED <<deal, impl, flat, ptr, removed, rejects, simvars, stack, callvars>>

StackRemoveCards ==
  /\ \E cs \in requests :
       LET r == stack_remove_cards(stack, cs)
       IN  /\ stack' = r.s
           /\ exc' = r.exc
           /\ last' = Call("remove_cards", 0, cs)
  /\ ret' = None
  /\ op' = "remove_cards"
  /\ UNCHANGED <<deal, impl, flat, ptr, removed, rejects, simvars, callvars>>

NextStack == StackDraw \/ StackNumInStack \/ StackGetStackMoves \/ StackRemoveCards

SpecStack == InitStack /\ [][NextStack]_vars

(***************************************************************************)
(* A Stack whose caller also hands remove_cards a sequence that holds      *)
(* None: only a bare None is turned away at the top of remove_cards, and   *)
(* None is the previous card at index 0 and the visible card on the        *)
(* trailing slot.  The run is followed up to the first such call that      *)
(* goes through.                                                           *)
(***************************************************************************)
slot_requests ==
  {<<None>>} \cup {<<StackBase + i, None>> : i \in 0 .. MaxStack - 1}

slot_removed == op = "remove_cards" /\ exc = "none" /\ None \in SeqSet(last.cards)

StackRemoveSlot ==
  /\ ~slot_removed
  /\ \E cs \in slot_requests :
       LET r == stack_remove_cards(stack, cs)
       IN  /\ stack' = r.s
           /\ exc' = r.exc
           /\ last' = Call("remove_cards", 0, cs)
  /\ ret' = None
  /\ op' = "remove_cards"
  /\ UNCHANGED <<deal, impl, flat, ptr, removed, rejects, simvars, callvars>>

NextStackAny == (~slot_removed /\ NextStack) \/ StackRemoveSlot

SpecStackAny == InitStack /\ [][NextStackAny]_vars

(***************************************************************************)
(* Card.value, Card.pos, Card.__repr__ and the str() of a tuple of cards,  *)
(* as character codes.  Every value is one character.  Of the position     *)
(* text only the characters at which two texts can differ are kept: the    *)
(* initial letter ("In stack" or "On board ..."), the digit of the row and *)
(* the digit of the column; two cards of the stack have the same text.     *)
(***************************************************************************)
value(n) ==
  CASE n = 1  -> 65    \* "A"
    [] n = 10 -> 48    \* "0"
    [] n = 11 -> 74    \* "J"
    [] n = 12 -> 68    \* "D"
    [] n = 13 -> 75    \* "K"
    [] OTHER  -> 48 + n

pos(c) ==
  IF on_board(c) THEN <<79, 49 + RowOf(c % CopyBase), 49 + ColOf(c % CopyBase)>>
  ELSE <<73>>

card_repr(c) == <<value(num(c))>> \o pos(c)

\* str((a,)) ends in ",)" and str((a, b)) goes on with ", " and b
str_cards(cs) ==
  IF Len(cs) = 1 THEN card_repr(cs[1]) \o <<44, 41>>
  ELSE card_repr(cs[1]) \o <<44, 32>> \o card_repr(cs[2]) \o <<41>>

\* a < b for two strings (and for two lists of integers)
str_less(a, b) ==
  \E k \in 1 .. Len(b) :
     /\ \A j \in 1 .. k - 1 : j <= Len(a) /\ a[j] = b[j]
     /\ (k > Len(a) \/ a[k] < b[k])

\* the sort key (m[1], str(m[2])) of a move
key_less(m1, m2) ==
  \/ m1.draws < m2.draws
  \/ m1.draws = m2.draws /\ str_less(str_cards(m1.cards), str_cards(m2.cards))

\* sorted(moves, key=...) of a set of moves: the sort is stable, so moves with
\* equal keys come out in the order the set yields them, which is any order
RECURSIVE sorted(_)
sorted(ms) ==
  IF ms = {} THEN {<<>>}
  ELSE UNION {{<<m>> \o rest : rest \in sorted(ms \ {m})} :
                m \in {x \in ms : \A y \in ms : ~key_less(y, x)}}

\* the stack index is left out of the signature
state_without_index(b) ==
  LET cs == SelectSeq(b.stack.cards, LAMBDA c : c # None)
  IN  <<b.moves, b.leaf_idxs, 0, [i \in 1 .. Len(cs) |-> value(num(cs[i]))]>>

\* FlatBoard.state: moves, leaf indexes, stack index, values of the stack
state(b) ==
  LET cs == SelectSeq(b.stack.cards, LAMBDA c : c # None)
  IN  <<b.moves, b.leaf_idxs, b.stack.idx, [i \in 1 .. Len(cs) |-> value(num(cs[i]))]>>

(***************************************************************************)
(* simulate and describe_solution                                          *)
(***************************************************************************)
top_moves == 2

first_top_moves == 3

\* the values simulate is given for first_games: the default, and none at all
FirstGames == {0, 5}

KnownMinMoves == 18

\* entries of the heap compare as tuples: moves first, then the path
entry_less(e, f) ==
  \/ e.moves < f.moves
  \/ e.moves = f.moves /\ str_less(e.moves_made, f.moves_made)

\* a slip in add_solution: the two keys are set on every node walked through
add_solution_on_the_way(trie, moves_played, available_move_count, winning_state) ==
  LET walked == {SubSeq(moves_played, 1, k) : k \in 0 .. Len(moves_played)}
  IN  [p \in DOMAIN trie \cup walked |->
         IF p \in walked
         THEN {<<"move_count", available_move_count>>,
               <<"winning_state", winning_state>>}
         ELSE trie[p]]

\* add_solution(trie, moves_played, available_move_count, winning_state):
\* walking down the defaultdicts makes every node on the path, then the two
\* keys of the last node are set
add_solution(trie, moves_played, available_move_count, winning_state) ==
  LET walked == {SubSeq(moves_played, 1, k) : k \in 0 .. Len(moves_played)}
  IN  [p \in DOMAIN trie \cup walked |->
         IF p = moves_played
         THEN {<<"move_count", available_move_count>>,
               <<"winning_state", winning_state>>}
         ELSE IF p \in DOMAIN trie THEN trie[p] ELSE {}]

\* copy.deepcopy(board): the same board with card objects of its own
deepcopy(b) == b

\* board_copy = board; board_copy.play_move(move): the move is played on the
\* board it was computed on
play_on_board(board, move) ==
  LET r == flat_play_move(board, move)
  IN  [board |-> r.b, board_copy |-> r.b, exc |-> r.exc]

\* board_copy = copy.deepcopy(board); board_copy.play_move(move): the move,
\* which get_moves computed on board, is played on the copy; board is what
\* the call leaves of the board that was copied
play_on_copy(board, move) ==
  LET r == flat_play_move(deepcopy(board), original(move))
  IN  [board |-> board, board_copy |-> r.b, exc |-> r.exc]

\* the for loop of simulate over the sorted moves, from index i on, with
\* moves_played moves played so far; acc holds the popped board, boards,
\* seen_states, the indexes of the moves handed to play_move and the
\* exception a play_move raised
RECURSIVE play_sorted(_, _, _, _, _)
play_sorted(moves_made, max_moves, moves, i, acc) ==
  LET board == acc.board
      moves_played == Len(acc.played)
  IN  IF i > Len(moves) THEN acc
      ELSE IF moves[i].draws > 0 /\ moves_played > max_moves THEN acc
      ELSE IF moves[i].draws + board.moves > known_min_moves THEN acc
      ELSE LET r == play_on_copy(board, moves[i])
               board_state == state(r.board_copy)
               tried == [acc EXCEPT !.board = r.board, !.played = Append(@, i)]
           IN  IF r.exc # "none" THEN [tried EXCEPT !.exc = r.exc]
               ELSE IF board_state \in acc.seen_states
               THEN play_sorted(moves_made, max_moves, moves, i + 1, tried)
               ELSE play_sorted(moves_made, max_moves, moves, i + 1,
                      [tried EXCEPT
                         !.seen_states = @ \cup {board_state},
                         !.boards = @ \cup {[moves      |-> r.board_copy.moves,
                                             moves_made |-> Append(moves_made, i),
                                             board      |-> r.board_copy]}])

InitSim ==
  /\ deal \in SimDeals
  /\ impl = "flat"
  /\ flat = FlatBoard(deal, FALSE)
  /\ ptr = Board(deal)
  /\ removed = {}
  /\ last = NoMove
  /\ exc = "none"
  /\ op = "simulate"
  /\ rejects = 0
  /\ known_min_moves \in 0 .. KnownMinMoves
  /\ first_games \in FirstGames
  /\ boards = {[moves |-> 0, moves_made |-> <<>>, board |-> flat]}
  /\ seen_states = {}
  /\ solution = <<>>
  /\ played = <<>>
  /\ solution_trie = ddict
  /\ node = NoNode
  /\ args = <<>>
  /\ result = <<>>
  /\ stack = NewStack(0)
  /\ ret = None

\* the dead-end test is taken for never true
no_moves_never(moves) == FALSE

\* if not moves: the popped board is a dead end
no_moves(moves) == moves = {}

\* one turn of the while loop of simulate: pop the least entry, return its
\* path if its board is completed, drop it if it has no moves, else play the
\* sorted moves on copies and push the children.  The first entry holds the
\* initial board itself, so what the loop leaves of the popped board is what
\* it leaves of the initial board.
Simulate ==
  /\ op = "simulate" /\ boards # {}
  /\ LET entry == CHOOSE e \in boards : \A f \in boards \ {e} : entry_less(e, f)
         rest  == boards \ {entry}
         board == entry.board
         moves_made == entry.moves_made
     IN  \E o \in flat_get_moves(board) :
           IF board.completed /\ (board.moves <= known_min_moves \/ o.exc = "none")
           THEN /\ solution' = moves_made
                /\ op' = "returned"
                /\ boards' = rest
                /\ solution_trie' =
                     IF board.moves <= known_min_moves
                     THEN add_solution(solution_trie, moves_made, 0, 1)
                     ELSE add_solution(solution_trie, moves_made,
                                       Cardinality(o.moves), -2)
                /\ UNCHANGED <<flat, seen_states, exc, node>>
           ELSE IF o.exc # "none"
           THEN /\ exc' = o.exc /\ op' = "raised" /\ boards' = rest
                /\ UNCHANGED <<flat, seen_states, solution, solution_trie, node>>
           ELSE IF no_moves(o.moves)
           THEN /\ solution_trie' = add_solution(solution_trie, moves_made, 0, -1)
                /\ boards' = rest
                /\ node' = [moves_made |-> moves_made, board_moves |-> board.moves,
                            moves |-> <<>>, max_moves |-> 0, played |-> <<>>]
                /\ UNCHANGED <<flat, seen_states, solution, exc, op>>
           ELSE \E moves \in sorted(o.moves) :
                  LET max_moves == IF board.moves <= first_games
                                   THEN first_top_moves ELSE top_moves
                      acc == play_sorted(moves_made, max_moves, moves, 1,
                               [board |-> board, boards |-> rest,
                                seen_states |-> seen_states,
                                played |-> <<>>, exc |-> "none"])
                  IN  /\ solution_trie' = add_solution(solution_trie, moves_made,
                                                       Len(moves), 0)
                      /\ boards' = acc.boards
                      /\ seen_states' = acc.seen_states
                      /\ exc' = acc.exc
                      /\ op' = IF acc.exc = "none" THEN "simulate" ELSE "raised"
                      /\ flat' = IF moves_made = <<>> THEN acc.board ELSE flat
                      /\ node' = [moves_made |-> moves_made,
                                  board_moves |-> board.moves, moves |-> moves,
                                  max_moves |-> max_moves, played |-> acc.played]
                      /\ UNCHANGED solution
  /\ UNCHANGED <<deal, impl, ptr, removed, last, rejects, known_min_moves,
               first_games, played, stackvars, callvars>>

\* the heap ran empty: raise Exception("No solution found?")
SimulateFails ==
  /\ op = "simulate" /\ boards = {}
  /\ op' = "raised"
  /\ exc' = "Exception"
  /\ UNCHANGED <<deal, impl, flat, ptr, removed, last, rejects, simvars,
               stackvars, callvars>>

\* one turn of the while loop of describe_solution on the initial board
Describe ==
  /\ op \in {"returned", "describe"} /\ exc = "none" /\ solution # <<>>
  /\ \E o \in flat_get_moves(flat) :
       IF o.exc # "none"
       THEN /\ exc' = o.exc
            /\ UNCHANGED <<flat, solution, last, removed, played>>
       ELSE \E moves \in sorted(o.moves) :
              /\ solution' = Tail(solution)
              /\ IF Head(solution) > Len(moves)
                 THEN /\ exc' = "IndexError"
                      /\ UNCHANGED <<flat, last, removed, played>>
                 ELSE LET m == moves[Head(solution)]
                          r == flat_play_move(flat, m)
                      IN  /\ flat' = r.b
                          /\ exc' = r.exc
                          /\ last' = m
                          /\ removed' = IF r.exc = "none" THEN removed \cup board_cards(m)
                                        ELSE removed
                          /\ played' = IF r.exc = "none" THEN Append(played, m)
                                       ELSE played
  /\ op' = "describe"
  /\ UNCHANGED <<deal, impl, ptr, rejects, known_min_moves, first_games,
               boards, seen_states, solution_trie, node, stackvars, callvars>>

\* the path is used up: describe_solution prints "All done!" and returns
Described ==
  /\ op \in {"returned", "describe"} /\ exc = "none" /\ solution = <<>>
  /\ op' = "described"
  /\ UNCHANGED <<deal, impl, flat, ptr, removed, last, exc, rejects, simvars,
               stackvars, callvars>>

\* main calls describe_solution with the path simulate returned; simulate
\* returns none (every play_move on a copy raises), so Describe and Described
\* are never reached from InitSim
NextSim == Simulate \/ SimulateFails

SpecSim == InitSim /\ [][NextSim]_vars

(***************************************************************************)
(* The board under play, whichever implementation holds it                 *)
(***************************************************************************)
cur_stack == IF impl = "flat" THEN flat.stack ELSE ptr.stack

cur_leaves == IF impl = "flat" THEN flat.leaf_idxs ELSE ptr_leaves(ptr)

cur_moves == IF impl = "flat" THEN flat.moves ELSE ptr.moves

cur_get_moves == IF impl = "flat" THEN flat_get_moves(flat) ELSE ptr_get_moves(ptr)

cur_play_move(m) == IF impl = "flat" THEN flat_play_move(flat, m)
                    ELSE ptr_play_move(ptr, m)

\* the board is in a state get_moves is called on: fresh, or after a move
\* it returned has been played
Playing == op # "reapply" /\ exc = "none"

\* copies of rank k physically left on the pyramid and in the stack
on_table(k) == {p \in Positions \ removed : num(p) = k}

in_stack(k) == {c \in SeqSet(cur_stack.cards) \ {None} : num(c) = k}

copies_left(k) == Cardinality(on_table(k)) + Cardinality(in_stack(k))

king_leaves == {c \in cur_leaves : num(c) = King}

\* matching pairs of leaves of which one rank has a single copy left
solo_leaf_pairs ==
  {p \in cur_leaves \X cur_leaves :
     /\ num(p[1]) + num(p[2]) = 13
     /\ (copies_left(num(p[1])) = 1 \/ copies_left(num(p[2])) = 1)}

\* the one or two cards of the stack that are visible without drawing
visible_cards == {peek(cur_stack), prev(cur_stack)} \ {None}

\* (leaf, stack card) with the leaf's rank solo and its match visible
solo_visible_pairs ==
  {p \in cur_leaves \X visible_cards :
     num(p[1]) + num(p[2]) = 13 /\ copies_left(num(p[1])) = 1}

(***************************************************************************)
(* Board.__init__ called on its own, with validation                       *)
(***************************************************************************)
\* the deals the constructor arguments are made from
CtorDeals == {1, 9}

\* the integers handed in as ranks
RankInputs == 0 .. 14

\* the rows argument made of the 28 ranks of a deal
rows_of(ranks) ==
  [r \in 1 .. NumRows |-> SubSeq(ranks, (r * (r - 1)) \div 2 + 1, (r * (r + 1)) \div 2)]

RECURSIVE concat(_)
concat(rows) == IF rows = <<>> THEN <<>> ELSE Head(rows) \o concat(Tail(rows))

\* Counter(seq)[v]
count_of(seq, v) == Cardinality({i \in 1 .. Len(seq) : seq[i] = v})

\* seq with every v replaced by w
replaced(seq, v, w) == [i \in 1 .. Len(seq) |-> IF seq[i] = v THEN w ELSE seq[i]]

\* arguments of Board(rows, stack): a deal as it is, with one card given
\* another integer, with all cards of one rank given another integer, or
\* with a card or a row moved, dropped or added
board_args ==
  UNION {
    LET rows  == Deals[d].rows
        cards == Deals[d].stack
        Args(rs, s) == [rows |-> rs, stack |-> s]
    IN  {Args(rows_of(rows), cards)}
        \cup {Args(rows_of([rows EXCEPT ![p] = v]), cards) :
                p \in 1 .. Len(rows), v \in RankInputs}
        \cup {Args(rows_of(rows), [cards EXCEPT ![p] = v]) :
                p \in 1 .. Len(cards), v \in RankInputs}
        \cup {Args(rows_of(replaced(rows, v, w)), replaced(cards, v, w)) :
                v \in Ranks, w \in RankInputs}
        \cup {Args(SubSeq(rows_of(rows), 1, NumRows - 1),
                   rows_of(rows)[NumRows] \o cards),
              Args(Append(rows_of(rows), <<>>), cards),
              Args(Append(rows_of(rows), SubSeq(cards, 1, NumRows + 1)),
                   SubSeq(cards, NumRows + 2, Len(cards))),
              Args([rows_of(rows) EXCEPT ![NumRows] = Tail(@)],
                   <<rows[Len(rows) - NumRows + 1]>> \o cards),
              Args([rows_of(rows) EXCEPT ![NumRows] = Tail(@)], cards),
              Args([rows_of(rows) EXCEPT ![NumRows - 1] = Append(@, rows[Len(rows)]),
                                         ![NumRows] = SubSeq(@, 1, NumRows - 1)],
                   cards),
              Args(rows_of(rows), Tail(cards)),
              Args(rows_of(rows), Append(cards, cards[1])),
              Args(rows_of(rows), <<>>)}
    : d \in CtorDeals}

\* the checks of Board.__init__ under _validate: the exception they raise
board_validate(rows, cards) ==
  LET nums == concat(rows) \o cards
  IN  IF Len(rows) # 7 THEN "ValueError"
      ELSE IF \E idx \in 1 .. Len(rows) : Len(rows[idx]) # idx THEN "ValueError"
      ELSE IF Len(nums) # 52 THEN "ValueError"
      ELSE IF Cardinality(SeqSet(nums)) # 13 THEN "ValueError"
      ELSE IF \E v \in SeqSet(nums) : count_of(nums, v) # 4 THEN "ValueError"
      ELSE "none"

InitCtor ==
  /\ deal \in {1}
  /\ impl = "ptr"
  /\ flat = FlatBoard(deal, FALSE)
  /\ ptr = Board(deal)
  /\ removed = {}
  /\ last = NoMove
  /\ exc = "none"
  /\ op = "init"
  /\ rejects = 0
  /\ known_min_moves = 0
  /\ first_games = 5
  /\ boards = {}
  /\ seen_states = {}
  /\ solution = <<>>
  /\ played = <<>>
  /\ solution_trie = ddict
  /\ node = NoNode
  /\ stack = NewStack(0)
  /\ ret = None
  /\ args \in board_args
  /\ result = <<>>

\* Board(rows, stack): the checks, then the cards, the edges and the stack
\* are made of the arguments
BoardInit ==
  /\ op = "init"
  /\ op' = "Board"
  /\ exc' = board_validate(args.rows, args.stack)
  /\ result' = IF exc' = "none"
               THEN <<[rows |-> args.rows, stack |-> args.stack, moves |-> 0]>>
               ELSE <<>>
  /\ UNCHANGED <<deal, impl, flat, ptr, removed, last, rejects, simvars, stackvars,
                 args>>

NextCtor == BoardInit

SpecCtor == InitCtor /\ [][NextCtor]_vars

(***************************************************************************)
(* Card.match read on its own                                              *)
(***************************************************************************)
InitCard ==
  /\ deal \in {1}
  /\ impl = "ptr"
  /\ flat = FlatBoard(deal, FALSE)
  /\ ptr = Board(deal)
  /\ removed = {}
  /\ last = NoMove
  /\ exc = "none"
  /\ op = "init"
  /\ rejects = 0
  /\ known_min_moves = 0
  /\ first_games = 5
  /\ boards = {}
  /\ seen_states = {}
  /\ solution = <<>>
  /\ played = <<>>
  /\ solution_trie = ddict
  /\ node = NoNode
  /\ stack = NewStack(0)
  /\ ret = None
  /\ args \in Ranks \X Ranks
  /\ result = <<>>

\* Card(a).match and Card(b).match
CardMatch ==
  /\ op = "init"
  /\ op' = "match"
  /\ result' = <<match(args[1]), match(args[2])>>
  /\ UNCHANGED <<deal, impl, flat, ptr, removed, last, exc, rejects, simvars,
                 stackvars, args>>

NextCard == CardMatch

SpecCard == InitCard /\ [][NextCard]_vars

(***************************************************************************)
(* add_solution called on its own, any number of times on one trie.  The   *)
(* paths are those of the repository's test of the trie that stay within   *)
(* branches 1 and 2; result keeps, for every path a call was made for, the *)
(* count and outcome of the latest such call.                              *)
(***************************************************************************)
TriePaths == {<<>>, <<1>>, <<1, 1>>, <<2>>}

MoveCounts == {0, 2}

WinningStates == {-2, -1, 0, 1}

InitTrie ==
  /\ deal \in {1}
  /\ impl = "flat"
  /\ flat = FlatBoard(deal, FALSE)
  /\ ptr = Board(deal)
  /\ removed = {}
  /\ last = NoMove
  /\ exc = "none"
  /\ op = "init"
  /\ rejects = 0
  /\ known_min_moves = 0
  /\ first_games = 5
  /\ boards = {}
  /\ seen_states = {}
  /\ solution = <<>>
  /\ played = <<>>
  /\ solution_trie = ddict
  /\ node = NoNode
  /\ stack = NewStack(0)
  /\ ret = None
  /\ args = <<>>
  /\ result = [p \in {} |-> <<>>]

AddSolution ==
  /\ \E moves_played \in TriePaths, available_move_count \in MoveCounts,
        winning_state \in WinningStates :
       /\ solution_trie' = add_solution(solution_trie, moves_played,
                                        available_move_count, winning_state)
       /\ args' = <<moves_played, available_move_count, winning_state>>
       /\ result' = [p \in DOMAIN result \cup {moves_played} |->
                       IF p = moves_played
                       THEN <<available_move_count, winning_state>>
                       ELSE result[p]]
  /\ op' = "add_solution"
  /\ UNCHANGED <<deal, impl, flat, ptr, removed, last, exc, rejects,
                 known_min_moves, first_games, boards, seen_states, solution,
                 played, node, stackvars>>

NextTrie == AddSolution

SpecTrie == InitTrie /\ [][NextTrie]_vars

(***************************************************************************)
(* C1: in FlatBoard, on a fresh board and after every play_move of a move  *)
(* that get_moves returned, leaf_idxs is exactly the set of positions that *)
(* are still on the board and whose children (next row, same and next      *)
(* column) have all been removed.                                          *)
(***************************************************************************)
C1_LeafSetExact ==
  (impl = "flat" /\ op # "reapply") =>
     flat.leaf_idxs = {p \in Positions \ removed : Children(p) \subseteq removed}

\* a move has been played that exposed a card two rows above the bottom
C1_Witness ==
  /\ impl = "flat" /\ op = "play" /\ exc = "none"
  /\ \E p \in flat.leaf_idxs : RowOf(p) <= 4

(***************************************************************************)
(* C2: every move get_moves returns in a state reached by playing such     *)
(* moves is a single king or two cards whose ranks sum to 13, has a draw   *)
(* count between 0 and the number of stack cards, names only leaves and    *)
(* stack cards that are visible or previous once the draws are made, and   *)
(* is applied by play_move without an exception.                           *)
(***************************************************************************)
C2_MovesLegal ==
  Playing =>
    \A o \in cur_get_moves : \A m \in o.moves :
       LET s == [cards |-> cur_stack.cards,
                 idx   |-> (cur_stack.idx + m.draws) % Len(cur_stack.cards)]
       IN  /\ Len(m.cards) \in {1, 2}
           /\ Len(m.cards) = 1 => num(m.cards[1]) = King
           /\ Len(m.cards) = 2 => num(m.cards[1]) + num(m.cards[2]) = 13
           /\ m.draws >= 0 /\ m.draws <= Len(cur_stack.cards) - 1
           /\ \A c \in SeqSet(m.cards) :
                IF on_board(c) THEN c \in cur_leaves
                ELSE c # None /\ (c = s.cards[s.idx + 1]
                                  \/ (s.idx > 0 /\ c = s.cards[s.idx]))
           /\ cur_play_move(m).exc = "none"

\* a board-stack match that needed draws has been played
C2_Witness ==
  /\ op = "play" /\ exc = "none"
  /\ last.type = "BoardStackMatch" /\ last.draws > 0

(***************************************************************************)
(* C3: whenever a leaf is a king, get_moves (of either board) returns      *)
(* exactly one move, the zero-draw BoardMatch of a single king leaf.       *)
(***************************************************************************)
C3_KingIsOnlyMove ==
  (Playing /\ king_leaves # {}) =>
    \A o \in cur_get_moves :
       /\ o.exc = "none"
       /\ \E k \in king_leaves : o.moves = {Move("BoardMatch", 0, <<k>>)}

(***************************************************************************)
(* C4: with no king leaf, when two leaves sum to 13 and one of the two     *)
(* ranks has a single copy left on board and stack, get_moves returns      *)
(* exactly one move, the zero-draw BoardMatch of such a pair.              *)
(***************************************************************************)
C4_SoloPairIsOnlyMove ==
  (Playing /\ king_leaves = {} /\ solo_leaf_pairs # {}) =>
    \A o \in cur_get_moves :
       /\ o.exc = "none"
       /\ \E p \in solo_leaf_pairs : o.moves = {Move("BoardMatch", 0, p)}

\* a move has been played and left a last pair of two ranks among the leaves
C4_Witness ==
  /\ op = "play" /\ exc = "none"
  /\ king_leaves = {} /\ solo_leaf_pairs # {}

(***************************************************************************)
(* C5: with no king leaf and no leaf pair involving a solo rank, when a    *)
(* leaf of a solo rank has its match visible in the stack without drawing  *)
(* (visible or previous card), get_moves returns exactly one move: the     *)
(* zero-draw BoardStackMatch of that leaf and that stack card.             *)
(***************************************************************************)
C5_SoloStackIsOnlyMove ==
  (Playing /\ king_leaves = {} /\ solo_leaf_pairs = {} /\ solo_visible_pairs # {}) =>
    \A o \in cur_get_moves :
       /\ o.exc = "none"
       /\ \E p \in solo_visible_pairs : o.moves = {Move("BoardStackMatch", 0, p)}

\* a move has been played and left a solo leaf whose match is the visible
\* card of the stack, not the previous one
C5_Witness ==
  /\ op = "play" /\ exc = "none"
  /\ king_leaves = {} /\ solo_leaf_pairs = {}
  /\ \E p \in solo_visible_pairs : p[2] = peek(cur_stack)
(***************************************************************************)
(* C6: when there is no match between two leaves and no earlier forced     *)
(* rule applies, and the stack holds a match that needs no draw (the       *)
(* visible card is a king, or the previous and the visible card sum to 13) *)
(* involving a king or a rank with a single copy left, get_moves returns   *)
(* only that StackMatch.                                                   *)
(***************************************************************************)
zero_draw_matches ==
  LET v == peek(cur_stack)
      u == prev(cur_stack)
  IN  (IF v # None /\ num(v) = King THEN {<<v>>} ELSE {})
      \cup (IF /\ v # None /\ u # None /\ num(u) + num(v) = 13
               /\ (copies_left(num(u)) = 1 \/ copies_left(num(v)) = 1)
            THEN {<<u, v>>} ELSE {})

C6_ZeroDrawStackIsOnlyMove ==
  (/\ Playing /\ king_leaves = {} /\ solo_visible_pairs = {}
   /\ {p \in cur_leaves \X cur_leaves : num(p[1]) + num(p[2]) = 13} = {}
   /\ zero_draw_matches # {}) =>
    \A o \in cur_get_moves :
       /\ o.exc = "none"
       /\ \E cs \in zero_draw_matches : o.moves = {Move("StackMatch", 0, cs)}

(***************************************************************************)
(* C7: get_moves never returns a two-card StackMatch whose removal leaves  *)
(* the last pair of its two ranks on the board with one of the two cards   *)
(* lying under the other, that is, when a rank of the pair has exactly one *)
(* copy on the board and that card is still blocked.                       *)
(***************************************************************************)
strands_last_pair(m) ==
  \E i \in 1 .. 2 :
     LET r == num(m.cards[i]) IN
       /\ copies_left(r) = 2 /\ copies_left(13 - r) = 2
       /\ \E p \in on_table(r), q \in on_table(13 - r) :
            q \in blocked_by_map[p + 1]

C7_NoStrandingStackPair ==
  Playing =>
    \A o \in cur_get_moves : \A m \in o.moves :
       (m.type = "StackMatch" /\ Len(m.cards) = 2) => ~strands_last_pair(m)

(***************************************************************************)
(* C8: a successful play_move of a move with draw count d adds d + 1 to    *)
(* the move counter, and its stack cards are taken from the window the     *)
(* stack shows after the index has advanced by d modulo the number of      *)
(* slots (the cards and the trailing empty slot).                          *)
(***************************************************************************)
C8_Step ==
  (op' = "play" /\ exc' = "none") =>
    LET m    == last'
        s    == cur_stack
        j    == (s.idx + m.draws) % Len(s.cards)
        gone == {c \in SeqSet(m.cards) : ~on_board(c)}
    IN  /\ cur_moves' = cur_moves + m.draws + 1
        /\ gone \subseteq {s.cards[j + 1]} \cup (IF j > 0 THEN {s.cards[j]} ELSE {})
        /\ cur_stack'.cards = SelectSeq(s.cards, LAMBDA c : c \notin gone)
        /\ cur_stack'.idx = IF j > 0 /\ s.cards[j] \in gone THEN j - 1 ELSE j

C8_MoveCounter == [][C8_Step]_vars

\* a stack match that needed draws has been played
C8_Witness ==
  /\ op = "play" /\ exc = "none"
  /\ last.type = "StackMatch" /\ last.draws > 0 /\ cur_moves > last.draws + 1

(***************************************************************************)
(* C10: after play_move has applied a move, play_move of the same move on  *)
(* the same board fails with IllegalMove or CardNotFound.                  *)
(***************************************************************************)
C10_ReapplyFails == op = "reapply" => exc \in {"IllegalMove", "CardNotFound"}
(***************************************************************************)
(* C9: replaying the path simulate returned on the initial board, taking   *)
(* at each step the move at that 1-based index of the sorted get_moves,    *)
(* applies every move without error, ends with the pyramid cleared, and    *)
(* leaves the move counter at the number of moves of the path plus the sum *)
(* of their draws.  The round trip starts with simulate handing over a     *)
(* path: simulate ends by returning one or by its no-solution failure, no  *)
(* play_move of the search raises.                                         *)
(***************************************************************************)
RECURSIVE sum_draws(_)
sum_draws(ms) == IF ms = <<>> THEN 0 ELSE Head(ms).draws + sum_draws(Tail(ms))

C11_Step ==
  (op' = "misplay" /\ exc' # "none") => (flat' = flat /\ ptr' = ptr)

C11_RejectLeavesBoard == [][C11_Step]_vars

(***************************************************************************)
(* C12: in Board, a BoardMatch or BoardStackMatch whose only fault is a    *)
(* board card that still has a child fails with IllegalMove; one whose     *)
(* only fault is a board card no longer on the board fails with            *)
(* CardNotFound; a BoardStackMatch whose only fault is a stack card that   *)
(* is neither the visible nor the previous card (once the draws are made)  *)
(* fails with IllegalMove.                                                 *)
(***************************************************************************)
C12_Step ==
  (op' = "misplay" /\ impl = "ptr") =>
    LET m       == last'
        s1      == draw(ptr.stack, m.draws)
        brd     == {c \in SeqSet(m.cards) : on_board(c)}
        stk     == SeqSet(m.cards) \ brd
        blocked == {c \in brd : c \in DOMAIN ptr.cards /\ edges_len(ptr.cards[c]) # 0}
        absent  == {c \in brd : c \notin DOMAIN ptr.cards}
        hidden  == {c \in stk : c # peek(s1) /\ c # prev(s1)}
        shaped  == \/ m.type = "BoardMatch" /\ stk = {}
                   \/ /\ m.type = "BoardStackMatch" /\ Len(m.cards) = 2
                      /\ Cardinality(brd) = 1 /\ Cardinality(stk) = 1
    IN  shaped =>
          /\ (blocked # {} /\ absent = {} /\ hidden = {}) => exc' = "IllegalMove"
          /\ (absent # {} /\ blocked = {} /\ hidden = {}) => exc' = "CardNotFound"
          /\ (hidden # {} /\ blocked = {} /\ absent = {}) => exc' = "IllegalMove"

C12_BoardErrors == [][C12_Step]_vars

\* Board has rejected a board-stack match naming a removed board card and
\* a visible stack card
C12_Witness ==
  /\ op = "misplay" /\ impl = "ptr" /\ exc = "CardNotFound"
  /\ last.type = "BoardStackMatch"
  /\ \E c \in SeqSet(last.cards) : on_board(c) /\ c \in removed

(***************************************************************************)
(* C13: on every freshly built 7-row board, of either implementation and   *)
(* whatever ranks were dealt, the leaves are exactly the 7 positions of    *)
(* the bottom row; no card of rows 0..5 is a leaf.                         *)
(***************************************************************************)
C13_FreshLeaves ==
  op = "init" =>
    /\ flat.leaf_idxs = {p \in Positions : RowOf(p) = NumRows - 1}
    /\ ptr_leaves(ptr) = {p \in Positions : RowOf(p) = NumRows - 1}
    /\ Cardinality(ptr_leaves(ptr)) = 7
    /\ \A p \in Positions : RowOf(p) <= 5 => p \notin flat.leaf_idxs \cup ptr_leaves(ptr)

\* a board has just been built from a deal with a king in the bottom row
C13_Witness ==
  /\ op = "init" /\ removed = {}
  /\ \E p \in ptr_leaves(ptr) \cap flat.leaf_idxs : num(p) = King

(***************************************************************************)
(* C14: draw(n) sets the visible index to (index + n) modulo (number of    *)
(* cards + 1), leaves the cards alone and returns the card now visible,    *)
(* the empty sentinel when the index is on the trailing slot; and from the *)
(* stack it leaves, draws adding up to (number of cards + 1) bring back    *)
(* the same visible card and the same previous card.                       *)
(***************************************************************************)
num_cards(s) == Cardinality(SeqSet(s.cards) \ {None})

C14_Step ==
  op' = "draw" =>
    LET n == last'.draws
        k == num_cards(stack)
    IN  /\ stack'.idx = (stack.idx + n) % (k + 1)
        /\ stack'.cards = stack.cards
        /\ ret' = IF stack'.idx = k THEN None ELSE stack.cards[stack'.idx + 1]
        /\ \A a \in 0 .. k + 1 :
             LET s2 == draw(draw(stack', a), k + 1 - a)
             IN  peek(s2) = peek(stack') /\ prev(s2) = prev(stack')

C14_DrawWraps == [][C14_Step]_vars

\* a draw has wrapped past the trailing slot (the index is left below the
\* draw count) and shows a card with a previous card again
C14_Witness ==
  /\ op = "draw" /\ ret # None
  /\ last.draws > stack.idx /\ last.draws <= num_cards(stack)
  /\ stack.idx > 0

(***************************************************************************)
(* C15: num_in_stack(rank) contains -1 exactly when the previous card has  *)
(* the rank; it contains a distance d of one round of draws, 0 <= d <=     *)
(* number of cards, exactly when the card visible after d draws has the    *)
(* rank and is not the previous card; it lists every card of the rank in   *)
(* the stack exactly once and never the empty sentinel.                    *)
(***************************************************************************)
C15_NumInStack ==
  op = "num_in_stack" =>
    LET n    == last.draws
        u    == prev(stack)
        at(d) == get_card_at_draws(stack, d)
    IN  /\ (-1 \in SeqSet(ret)) <=> (u # None /\ num(u) = n)
        /\ \A d \in 0 .. num_cards(stack) :
             (d \in SeqSet(ret)) <=>
               (at(d) # None /\ num(at(d)) = n /\ at(d) # u)
        /\ SeqSet(ret) \subseteq -1 .. num_cards(stack)
        /\ \A i, j \in 1 .. Len(ret) : i # j => ret[i] # ret[j]
        /\ {at(ret[i]) : i \in 1 .. Len(ret)}
             = {c \in SeqSet(stack.cards) \ {None} : num(c) = n}
        /\ Len(ret) = Cardinality({c \in SeqSet(stack.cards) \ {None} : num(c) = n})

\* the rank asked for is held by the previous card and by a card that is
\* reached only by drawing past the trailing slot
C15_Witness ==
  /\ op = "num_in_stack" /\ Len(ret) >= 2
  /\ ret[1] = -1
  /\ \E i \in 2 .. Len(ret) : stack.idx + ret[i] >= Len(stack.cards)

(***************************************************************************)
(* C16: get_stack_moves returns exactly: for every king of the stack, at   *)
(* whatever place in the sequence (the first included), the StackMatch of  *)
(* that king alone; for every two neighbouring cards whose ranks sum to    *)
(* 13, the StackMatch of the two; each with the number of draws, modulo    *)
(* the number of cards + 1, after which the move's last card is visible.   *)
(***************************************************************************)
draws_to(s, i) == (i - s.idx) % (num_cards(s) + 1)

lone_kings(s) ==
  {Move("StackMatch", draws_to(s, i - 1), <<s.cards[i]>>) :
     i \in {j \in 1 .. num_cards(s) : num(s.cards[j]) = King}}

neighbour_pairs(s) ==
  {Move("StackMatch", draws_to(s, i), <<s.cards[i], s.cards[i + 1]>>) :
     i \in {j \in 1 .. num_cards(s) - 1 : fits(s.cards[j], s.cards[j + 1])}}

C16_StackMoves ==
  op = "get_stack_moves" => ret = lone_kings(stack) \cup neighbour_pairs(stack)

(***************************************************************************)
(* C17: whenever the visible card of the stack is a king, at index 0 as at *)
(* any other index, get_stack_moves holds the StackMatch with 0 draws that *)
(* removes that king alone.                                                *)
(***************************************************************************)
C17_VisibleKingOffered ==
  (op = "get_stack_moves" /\ peek(stack) # None /\ num(peek(stack)) = King) =>
    Move("StackMatch", 0, <<peek(stack)>>) \in ret

(***************************************************************************)
(* C18: remove_cards raises IllegalMove when one of the given cards is     *)
(* neither the visible card nor the previous card, and then removes        *)
(* nothing: the sequence of cards and the visible index are as before,     *)
(* also when another card of the request is visible.                       *)
(***************************************************************************)
C18_Step ==
  (/\ op' = "remove_cards"
   /\ \E c \in SeqSet(last'.cards) : c # peek(stack) /\ c # prev(stack)) =>
    (exc' = "IllegalMove" /\ stack' = stack)

C18_RemoveRejects == [][C18_Step]_vars

\* a request naming the visible card first and a hidden card second has
\* been rejected
C18_Witness ==
  /\ op = "remove_cards" /\ exc = "IllegalMove"
  /\ Len(last.cards) = 2 /\ last.cards[1] = peek(stack)
  /\ last.cards[2] \in SeqSet(stack.cards) \ {prev(stack)}

(***************************************************************************)
(* C19: a remove_cards call that succeeds keeps the window: removing the   *)
(* previous card leaves the visible card and makes the card before the     *)
(* previous one the previous card (none at index 0); removing the visible  *)
(* card leaves the previous card and shows the next card in draw order     *)
(* (or the empty sentinel); removing both shows the card after the pair    *)
(* with the card before the pair as previous card.                         *)
(***************************************************************************)
C19_Step ==
  (op' = "remove_cards" /\ exc' = "none") =>
    LET gone   == SeqSet(last'.cards)
        u      == prev(stack)
        v      == peek(stack)
        before == IF stack.idx >= 2 THEN stack.cards[stack.idx - 1] ELSE None
        after  == get_card_at_draws(stack, 1)
    IN  /\ gone \subseteq {u, v} \ {None}
        /\ stack'.cards = SelectSeq(stack.cards, LAMBDA c : c \notin gone)
        /\ stack'.idx \in 0 .. Len(stack'.cards) - 1
        /\ peek(stack') = IF v \in gone THEN after ELSE v
        /\ prev(stack') = IF u \in gone THEN before ELSE u

C19_WindowKept == [][C19_Step]_vars

\* the visible and the previous card have been removed in that order, from
\* a window with cards on both sides
C19_Witness ==
  /\ op = "remove_cards" /\ exc = "none"
  /\ Len(last.cards) = 2 /\ last.cards[1] > last.cards[2]
  /\ peek(stack) # None /\ prev(stack) # None

(***************************************************************************)
(* C20: for a fixed board, widths and bound every run of simulate returns  *)
(* the same path, because the sort key (draws, str(cards)) orders the      *)
(* candidate moves of every node totally: of two different moves that      *)
(* get_moves returns for a board reached by play, one has the smaller key, *)
(* so sorted() does not fall back on the iteration order of the set.       *)
(***************************************************************************)
C20_SortKeyTotal ==
  (impl = "flat" /\ exc = "none") =>
    \A o \in flat_get_moves(flat) :
       o.exc = "none" =>
         \A m1, m2 \in o.moves :
            m1 # m2 => key_less(m1, m2) \/ key_less(m2, m1)

zero_draw_candidates ==
  {i \in 1 .. Len(node.moves) :
     node.moves[i].draws = 0 /\ node.board_moves <= known_min_moves}

C23_BranchWidth ==
  LET z == Cardinality(zero_draw_candidates)
      w == node.max_moves
  IN  /\ zero_draw_candidates \subseteq SeqSet(node.played)
      /\ Len(node.played) <= (IF z > w THEN z ELSE w)
      /\ z > w => SeqSet(node.played) = zero_draw_candidates

(***************************************************************************)
(* C25: when simulate pops a board that is not cleared and has no legal    *)
(* moves, it records the node as a dead end (move count 0, winning state   *)
(* -1), drops it and goes on with the rest of the frontier without         *)
(* raising; the no-solution failure is raised only when the frontier is    *)
(* empty and no cleared board was popped.                                  *)
(***************************************************************************)
C25_Step ==
  /\ (op = "simulate" /\ boards # {}) =>
       LET entry == CHOOSE e \in boards : \A f \in boards \ {e} : entry_less(e, f)
       IN  (/\ ~entry.board.completed
            /\ \A o \in flat_get_moves(entry.board) : o.exc = "none" /\ o.moves = {})
           => /\ exc' = "none" /\ op' = "simulate"
              /\ boards' = boards \ {entry}
              /\ solution_trie'[entry.moves_made] =
                   {<<"move_count", 0>>, <<"winning_state", -1>>}
  /\ (exc' = "Exception" /\ exc # "Exception") =>
       /\ boards = {}
       /\ \A q \in DOMAIN solution_trie :
            \A ws \in {1, -2} : <<"winning_state", ws>> \notin solution_trie[q]

C25_DeadEndDropped == [][C25_Step]_vars

\* a board without moves was popped and dropped, and the run then failed on
\* the empty frontier
C25_Witness ==
  /\ op = "raised" /\ exc = "Exception"
  /\ node.moves = <<>>
  /\ <<"winning_state", -1>> \in solution_trie[<<>>]

(***************************************************************************)
(* C26: expanding a node in simulate changes neither the popped board (at  *)
(* the first turn the initial board itself) nor the board of any other     *)
(* entry of the frontier: cards, leaves, stack contents, stack index and   *)
(* move counter are the same before and after, each candidate being played *)
(* on a copy of its own.                                                   *)
(***************************************************************************)
C26_Step ==
  (op = "simulate" /\ boards # {}) =>
    LET entry == CHOOSE e \in boards : \A f \in boards \ {e} : entry_less(e, f)
    IN  /\ flat' = flat
        /\ entry.moves_made = <<>> => entry.board = flat
        /\ \A e \in boards \ {entry} : e \in boards'

well_dealt(rows, cards) ==
  /\ Len(rows) = 7
  /\ \A i \in 0 .. Len(rows) - 1 : Len(rows[i + 1]) = i + 1
  /\ Len(concat(rows)) + Len(cards) = 52
  /\ \A r \in Ranks : count_of(concat(rows) \o cards, r) = 4

C27_ValidatedBoard ==
  op = "Board" =>
    IF well_dealt(args.rows, args.stack)
    THEN exc = "none" /\ result # <<>>
    ELSE exc = "ValueError" /\ result = <<>>

(***************************************************************************)
(* C28: on a FlatBoard built from a valid deal, before and after every     *)
(* play_move of a move that get_moves returned, the tracked count of each  *)
(* rank is the number of cards of that rank still on the board or in the   *)
(* stack and lies in 0..4, so the solo ranks of get_moves are the ranks    *)
(* with one card left.                                                     *)
(***************************************************************************)
C28_CountsTrack ==
  (impl = "flat" /\ rejects = 0) =>
    /\ \A k \in Ranks :
         flat.card_counts[k] = copies_left(k) /\ flat.card_counts[k] \in 0 .. 4
    /\ {k \in Ranks : flat.card_counts[k] = 1} = {k \in Ranks : copies_left(k) = 1}

\* moves of all three kinds have been played: a rank is down to one card,
\* a rank is gone, the latest move took a card of the stack
C28_Witness ==
  /\ impl = "flat" /\ rejects = 0 /\ op = "play"
  /\ \E k \in Ranks : flat.card_counts[k] = 1
  /\ \E k \in Ranks : flat.card_counts[k] = 0
  /\ last.type \in {"BoardStackMatch", "StackMatch"}

C31_WidthByMoves ==
  (node # NoNode /\ Len(node.moves) > 0) =>
    node.max_moves = IF node.board_moves < first_games
                     THEN first_top_moves ELSE top_moves

(***************************************************************************)
(* C32: a BoardMatch that play_move has applied (one king, or two matching *)
(* leaves) adds at most 2 positions to the leaf set: 0, 1 or 2 cards are   *)
(* newly exposed.                                                          *)
(***************************************************************************)
exposed == cur_leaves' \ cur_leaves

C32_Step ==
  (op' = "play" /\ exc' = "none" /\ last'.type = "BoardMatch") =>
    Cardinality(exposed) \in 0 .. 2

C32_AtMostTwoExposed == [][C32_Step]_vars

(***************************************************************************)
(* C32, per removed card: a BoardMatch that play_move has applied exposes  *)
(* at most the 2 cards each removed card lay on, up to 2 for a king and up *)
(* to 4 for a pair, and exactly the cards that lay on a removed card and   *)
(* have no card left on them.                                              *)
(***************************************************************************)
C32_PerCard_Step ==
  (op' = "play" /\ exc' = "none" /\ last'.type = "BoardMatch") =>
    LET cs == SeqSet(last'.cards)
    IN  /\ exposed = {p \in Positions \ removed' :
                        Children(p) \cap cs # {} /\ Children(p) \subseteq removed'}
        /\ Cardinality(exposed) <= 2 * Cardinality(cs)

C32_AtMostTwoPerCard == [][C32_PerCard_Step]_vars

\* a match of two leaves has exposed more than 2 cards
C32_Witness ==
  /\ op = "play" /\ exc = "none"
  /\ last.type = "BoardMatch" /\ Len(last.cards) = 2
  /\ Cardinality({p \in cur_leaves : Children(p) \cap SeqSet(last.cards) # {}}) > 2

(***************************************************************************)
(* C33: the FlatBoard signature is canonical.  Two states reached from the *)
(* same deal by legal moves that have equal signatures have the same move  *)
(* count, the same remaining board positions, the same stack rank sequence *)
(* and the same visible index, hence the same per-rank counts and the same *)
(* get_moves result.  Stated through the board the signature alone         *)
(* describes: every reachable board agrees with it on all of these, so two *)
(* boards with one signature agree with each other.                        *)
(***************************************************************************)
\* the rank a character of the stack part of a signature stands for
rank_of(ch) == CHOOSE k \in Ranks : value(k) = ch

\* a stack with the ranks a signature lists: slot by slot, the deal's stack
\* cards of that rank in the order they were dealt
signed_stack(vals, idx) ==
  LET dealt(r) == {c \in StackBase .. StackBase + Len(Deals[deal].stack) - 1 :
                     num(c) = r}
      card_at(i) ==
        LET r == rank_of(vals[i])
            nth == Cardinality({j \in 1 .. i : rank_of(vals[j]) = r})
        IN  CHOOSE c \in dealt(r) : Cardinality({e \in dealt(r) : e <= c}) = nth
  IN  [cards |-> [i \in 1 .. Len(vals) + 1 |->
                    IF i = Len(vals) + 1 THEN None ELSE card_at(i)],
       idx   |-> idx]

\* the positions a leaf set leaves on the board: the leaves and every card
\* they lie on
left_on_board(leaves) == leaves \cup UNION {blockers_map[l + 1] : l \in leaves}

\* the board a signature describes, built from the signature and the deal
from_state(sig) ==
  [leaf_idxs    |-> sig[2],
   moves        |-> sig[1],
   completed    |-> sig[2] = {},
   card_counts  |-> [k \in Ranks |->
                       Cardinality({p \in left_on_board(sig[2]) : num(p) = k})
                       + Cardinality({i \in 1 .. Len(sig[4]) : rank_of(sig[4][i]) = k})],
   stack        |-> signed_stack(sig[4], sig[3]),
   error_handle |-> FALSE]

\* a move with its stack cards named by the slot they lie in
by_slot(m, s) ==
  [m EXCEPT !.cards =
     [i \in DOMAIN m.cards |->
        IF on_board(m.cards[i]) THEN m.cards[i]
        ELSE StackBase + (CHOOSE k \in 1 .. Len(s.cards) : s.cards[k] = m.cards[i])]]

get_moves_by_slot(b) ==
  {[exc |-> o.exc, moves |-> {by_slot(m, b.stack) : m \in o.moves}] :
     o \in flat_get_moves(b)}

stack_ranks(s) ==
  LET cs == SelectSeq(s.cards, LAMBDA c : c # None)
  IN  [i \in 1 .. Len(cs) |-> num(cs[i])]

C33_SignatureCanonical ==
  (impl = "flat" /\ Playing) =>
    LET signed == from_state(state(flat))
    IN  /\ signed.moves = flat.moves
        /\ left_on_board(signed.leaf_idxs) = Positions \ removed
        /\ stack_ranks(signed.stack) = stack_ranks(flat.stack)
        /\ Len(signed.stack.cards) = Len(flat.stack.cards)
        /\ signed.stack.idx = flat.stack.idx
        /\ signed.card_counts = flat.card_counts
        /\ get_moves_by_slot(signed) = get_moves_by_slot(flat)

\* another way to the signature 17|21:22:24:25:26:27|14|... on deal 3
twin_moves ==
  << Move("StackMatch", 12, <<StackBase + 12>>),
     Move("BoardStackMatch", 0, <<23, StackBase + 13>>),
     Move("StackMatch", 2, <<StackBase + 16>>) >>

RECURSIVE replay(_, _)
replay(b, ms) ==
  IF ms = <<>> THEN b ELSE replay(flat_play_move(b, Head(ms)).b, Tail(ms))

\* two boards reached by different legal moves carry one signature while
\* their stacks hold different cards of one rank
C33_Witness ==
  /\ deal = 3 /\ impl = "flat" /\ Playing /\ flat.moves = 17
  /\ \A k \in 1 .. Len(twin_moves) :
       LET b == replay(FlatBoard(deal, FALSE), SubSeq(twin_moves, 1, k - 1))
       IN  \E o \in flat_get_moves(b) :
             \E m \in o.moves : m.type = twin_moves[k].type
                                 /\ m.draws = twin_moves[k].draws
                                 /\ SeqSet(m.cards) = SeqSet(twin_moves[k].cards)
  /\ LET twin == replay(FlatBoard(deal, FALSE), twin_moves)
     IN  /\ state(twin) = state(flat)
         /\ twin.stack.cards # flat.stack.cards

(***************************************************************************)
(* C34: after any sequence of draw and successful remove_cards calls the   *)
(* visible index is at least 0 and below the number of slots, the empty    *)
(* sentinel is the last slot and the only empty slot, and the previous     *)
(* card is none exactly when the index is 0.                               *)
(***************************************************************************)
C34_StackShape ==
  LET n == Len(stack.cards)
  IN  /\ n >= 1
      /\ stack.idx \in 0 .. n - 1
      /\ stack.cards[n] = None
      /\ \A i \in 1 .. n - 1 : stack.cards[i] # None
      /\ (prev(stack) = None) <=> (stack.idx = 0)

(***************************************************************************)
(* C35: in every state reached by legal moves get_moves never pairs a leaf *)
(* with the empty slot of the stack: the "Incorrectly matched the empty    *)
(* spot" error is not raised, and no BoardStackMatch it returns holds the  *)
(* empty slot as its stack card.                                           *)
(***************************************************************************)
C35_NoEmptySlotMatch ==
  Playing =>
    \A o \in cur_get_moves :
       /\ o.exc # "SpiderException"
       /\ \A m \in o.moves :
            m.type = "BoardStackMatch" => None \notin SeqSet(m.cards)

\* the stack shows its empty slot and get_moves pairs a leaf with the card
\* before it
C35_Witness ==
  /\ Playing
  /\ peek(cur_stack) = None /\ prev(cur_stack) # None
  /\ \E o \in cur_get_moves :
       \E m \in o.moves : /\ m.type = "BoardStackMatch" /\ m.draws = 0
                           /\ prev(cur_stack) \in SeqSet(m.cards)

(***************************************************************************)
(* C36: on a FlatBoard played with moves get_moves returned, completed is  *)
(* true exactly when all 28 board positions have been removed, which is    *)
(* when the leaf set is empty; the root position is the last board card to *)
(* go, and cards left in the stack make no difference.                     *)
(***************************************************************************)
C36_CompletedIffCleared ==
  (impl = "flat" /\ Playing) =>
    /\ flat.completed <=> (removed = Positions)
    /\ flat.completed <=> (flat.leaf_idxs = {})
    /\ (0 \in removed) => (removed = Positions)

\* the board has been cleared by a match that took the root card while the
\* stack still holds cards
C36_Witness ==
  /\ impl = "flat" /\ op = "play" /\ exc = "none"
  /\ 0 \in SeqSet(last.cards)
  /\ flat.completed /\ num_cards(flat.stack) > 0

(***************************************************************************)
(* C37: simulate terminates for every deal, bound and widths: a path never *)
(* holds more moves than the deal has cards, and once the run is over it   *)
(* has ended by returning a path or by raising the no-solution failure     *)
(* ("No solution found?"), in no other way.                                *)
(***************************************************************************)
C37_EndsByPathOrFailure ==
  /\ \A e \in boards :
       Len(e.moves_made) <= Cardinality(Positions) + Len(Deals[deal].stack)
  /\ op # "simulate" =>
       \/ op = "returned"
       \/ op = "raised" /\ exc = "Exception"

(***************************************************************************)
(* C38: for a given board state get_moves has one result, whatever order   *)
(* the leaves and the stack candidates are iterated in; also when several  *)
(* forced moves are available at once (two solo leaf pairs, or in Board a  *)
(* king leaf together with a solo leaf pair) the single move returned is   *)
(* the same on every call.                                                 *)
(***************************************************************************)
C38_OneResult == Playing => Cardinality(cur_get_moves) = 1

(***************************************************************************)
(* C39: add_solution(trie, path, count, outcome) sets the branch count and *)
(* the outcome at the node addressed by path and leaves what is recorded   *)
(* at every other path as it was, prefixes and extensions of path          *)
(* included; after any sequence of calls every node holds the values of    *)
(* the last call made for its path.                                        *)
(***************************************************************************)
recorded(c, w) == {<<"move_count", c>>, <<"winning_state", w>>}

C39_Step ==
  op' = "add_solution" =>
    /\ solution_trie'[args'[1]] = recorded(args'[2], args'[3])
    /\ DOMAIN solution_trie \subseteq DOMAIN solution_trie'
    /\ \A q \in DOMAIN solution_trie' \ {args'[1]} :
         solution_trie'[q] = IF q \in DOMAIN solution_trie THEN solution_trie[q]
                             ELSE {}
    /\ \A q \in DOMAIN result' :
         /\ q \in DOMAIN solution_trie'
         /\ solution_trie'[q] = recorded(result'[q][1], result'[q][2])

C39_OnlyItsNode == [][C39_Step]_vars

\* the node between a recorded prefix and a recorded extension has been
\* written by the latest call, and the three hold different values
C39_Witness ==
  /\ op = "add_solution" /\ args[1] = <<1>>
  /\ DOMAIN result = {<<>>, <<1>>, <<1, 1>>}
  /\ solution_trie[<<>>] # solution_trie[<<1>>]
  /\ solution_trie[<<1, 1>>] # solution_trie[<<1>>]
  /\ solution_trie[<<>>] # solution_trie[<<1, 1>>]
====
